---- MODULE Spec2Model ----
(***************************************************************************)
(* Model of src/venv/src/Sipri.py: the Sheet class, which normalizes one   *)
(* tab of the SIPRI workbook into a long (entity, Year, Budget) table, and *)
(* the Sipri class, which owns the country tab and the regional tab and    *)
(* derives selections, the region/USA merge and the map classification.    *)
(*                                                                         *)
(* A spreadsheet cell is a record [t, n, s]: t = "num" carries the number  *)
(* n, t = "str" the text s, t = "nan" is an empty cell (pandas NaN).       *)
(* A DataFrame is a sequence of rows; each row keeps its index label idx.  *)
(***************************************************************************)
EXTENDS Integers, Sequences, FiniteSets, TLC

VARIABLES
    sheet_loc,        \* Sheet under test: its location_type argument
    sheet_raw,        \* Sheet under test: the grid read_excel returns
    sheet,            \* Sheet under test: [state, err, df]
    raw_country,      \* workbook tab 'Constant (2019) USD' as read_excel returns it
    raw_region,       \* workbook tab 'Regional totals' as read_excel returns it
    phase,            \* Sipri object: "new", "ready" or "failed"
    constant_USD,     \* Sipri.constant_USD.df
    regional_totals,  \* Sipri.regional_totals.df
    last              \* the last query: its name, arguments and outcome

vars == <<sheet_loc, sheet_raw, sheet, raw_country, raw_region, phase,
          constant_USD, regional_totals, last>>

-----------------------------------------------------------------------------
(* Bounds of the model *)

\* entity rows of the country tab
NumCountries == 3
\* entity rows of the regional tab
NumRegions == 2
\* year columns of a tab; the last one is the reference year
NumYearCols == 2
\* cells or headers of one tab that deviate from a clean numeric sheet
MaxIrregular == 2
\* the same, over both tabs of a workbook handed to Sipri
MaxIrregularWorkbook == 1

(* Program constants *)

\* the year remove_dead_countries looks at
ReferenceYear == 2020
\* default last_year of __select_df
DefaultLastYear == 2021
\* divisor of __transform_country_to_regional
UnitDivisor == 1000
\* the identifier __get_country_id gives Kosovo
KosovoId == 0

-----------------------------------------------------------------------------
(* Cells *)

Num(n) == [t |-> "num", n |-> n, s |-> ""]
Str(s) == [t |-> "str", n |-> 0, s |-> s]
NaN == [t |-> "nan", n |-> 0, s |-> ""]

IsNum(c) == c.t = "num"
IsStr(c) == c.t = "str"
IsNaN(c) == c.t = "nan"

\* Python's cell == "text" / cell == number
EqStr(c, s) == c.t = "str" /\ c.s = s
EqNum(c, n) == c.t = "num" /\ c.n = n

-----------------------------------------------------------------------------
(* The workbook: inputs *)

CountryPool == <<"USA", "Kosovo", "Atlantis", "Bolivia", "Dominican Rep.">>
RegionPool == <<"Americas", "Europe", "Africa", "Asia">>

EntityNames(loc) ==
    IF loc = "Country" THEN SubSeq(CountryPool, 1, NumCountries)
    ELSE SubSeq(RegionPool, 1, NumRegions)

FirstYear == ReferenceYear - NumYearCols + 1
Years == FirstYear .. ReferenceYear

\* Grid columns: 1 the entity names, 2 a footnote column, 3.. the years.
\* Grid rows: 1 the header, 2.. one row per entity.
NumGridCols == NumYearCols + 2
NotesCol == 2

\* pandas labels of the transposed rows that get_df drops (footnote columns)
skip_columns == {NotesCol - 1}

\* Budgets of the country tab are in millions, of the regional tab in billions.
CleanValue(loc, r, c) ==
    IF loc = "Country" THEN UnitDivisor * (3 * r + c) ELSE 20 * r + c

CleanCell(loc, r, c) ==
    IF c = NotesCol THEN (IF r = 1 THEN Str("Notes") ELSE NaN)
    ELSE IF r = 1 /\ c = 1 THEN Str(loc)
    ELSE IF r = 1 THEN Num(FirstYear + c - 3)
    ELSE IF c = 1 THEN Str(EntityNames(loc)[r - 1])
    ELSE Num(CleanValue(loc, r, c))

Sites(loc) ==
    {<<r, c>> : r \in 1 .. (Len(EntityNames(loc)) + 1),
               c \in (1 .. NumGridCols) \ {NotesCol}}

\* What an irregular cell may hold instead of its clean content.
DevOptions(site) ==
    IF site[2] = 1 THEN {NaN}
    ELSE IF site[1] = 1 THEN {NaN, Str("2020 Current"), Str("Notes")}
    ELSE {NaN, Str("xxx"), Str(". ."), Str("7000")}

AllDevValues == {NaN, Str("2020 Current"), Str("Notes"), Str("xxx"), Str(". ."), Str("7000")}

RECURSIVE SubsetsUpTo(_, _)
SubsetsUpTo(S, k) ==
    IF k = 0 THEN {{}}
    ELSE LET prev == SubsetsUpTo(S, k - 1)
         IN  prev \cup {T \cup {x} : T \in prev, x \in S}

\* Every assignment of irregular contents to at most k sites.
Deviations(S, k) ==
    UNION {{d \in [T -> AllDevValues] : \A x \in T : d[x] \in DevOptions(x)} :
           T \in SubsetsUpTo(S, k)}

RawGrid(loc, d) ==
    [r \in 1 .. (Len(EntityNames(loc)) + 1) |->
        [c \in 1 .. NumGridCols |->
            IF <<r, c>> \in DOMAIN d THEN d[<<r, c>>] ELSE CleanCell(loc, r, c)]]

-----------------------------------------------------------------------------
(* class Sheet *)

\* df.transpose(): row j of the result is column j of the grid (label j - 1)
transpose(grid) ==
    [c \in 1 .. Len(grid[1]) |-> [r \in 1 .. Len(grid) |-> grid[r][c]]]

\* .drop(skip_columns): drop the rows whose label is listed
RECURSIVE drop_labels(_, _, _)
drop_labels(df, labels, j) ==
    IF j > Len(df) THEN <<>>
    ELSE (IF (j - 1) \in labels THEN <<>> ELSE <<df[j]>>)
         \o drop_labels(df, labels, j + 1)

fix_header(df) == [columns |-> df[1], data |-> Tail(df)]

\* positions of the columns named id_vars
IdColumns(frame, id_vars) ==
    {k \in 1 .. Len(frame.columns) : EqStr(frame.columns[k], id_vars)}

RECURSIVE SeqOfSet(_)
SeqOfSet(S) ==
    IF S = {} THEN <<>>
    ELSE LET m == CHOOSE x \in S : \A y \in S : x <= y
         IN  <<m>> \o SeqOfSet(S \ {m})

\* df.melt(id_vars=..., value_name='Budget'): one row per (data row, other column),
\* column by column, on a fresh RangeIndex
melt(frame, id_vars) ==
    LET idc == CHOOSE k \in IdColumns(frame, id_vars) : TRUE
        vcols == SeqOfSet((1 .. Len(frame.columns)) \ {idc})
        N == Len(frame.data)
    IN  [i \in 1 .. (Len(vcols) * N) |->
            LET k == vcols[((i - 1) \div N) + 1]
                r == ((i - 1) % N) + 1
            IN  [idx |-> i - 1,
                 id_var |-> frame.data[r][idc],
                 variable |-> frame.columns[k],
                 value |-> frame.data[r][k]]]

\* df.rename(columns={location_type: 'Year', 0: location_type})
rename(df) ==
    [i \in 1 .. Len(df) |->
        [idx |-> df[i].idx, Year |-> df[i].id_var, Loc |-> df[i].variable,
         Budget |-> df[i].value]]

\* dropna over Year and Budget only
dropna_keep_values(row) == ~IsNaN(row.Year) /\ ~IsNaN(row.Budget)

dropna_keep(row) == ~IsNaN(row.Year) /\ ~IsNaN(row.Loc) /\ ~IsNaN(row.Budget)
dropna(df) == SelectSeq(df, dropna_keep)

Range(f) == {f[i] : i \in DOMAIN f}

\* every entity with a reference-year row, whatever the row holds
living_countries_any(df) ==
    {row.Loc : row \in {x \in Range(df) : EqNum(x.Year, ReferenceYear)}}

living_countries(df) ==
    {row.Loc : row \in {x \in Range(df) :
                          EqNum(x.Year, ReferenceYear) /\ ~EqStr(x.Budget, "xxx")}}

\* a per-row filter instead of the per-entity one
remove_dead_countries_rowwise(df) ==
    LET keep(row) == ~(EqNum(row.Year, ReferenceYear) /\ EqStr(row.Budget, "xxx"))
    IN  SelectSeq(df, keep)

remove_dead_countries(df) ==
    LET living == living_countries(df)
        keep(row) == row.Loc \in living
    IN  SelectSeq(df, keep)

\* float(text): the texts the model's sheets hold
ParsesAsFloat(s) == s \in {"7000", "nan"}
FloatOfText(s) == IF s = "7000" THEN Num(7000) ELSE NaN

\* an unparseable cell filled with zero
clean_budget_zero(item) ==
    IF IsNum(item) THEN item
    ELSE IF IsStr(item) /\ ParsesAsFloat(item.s) THEN FloatOfText(item.s)
    ELSE Num(0)

\* clean_budget, then .astype('float64'): None becomes NaN
clean_budget(item) ==
    IF IsNum(item) THEN item
    ELSE IF IsStr(item) /\ ParsesAsFloat(item.s) THEN FloatOfText(item.s)
    ELSE NaN

fix_budget(df) ==
    LET d2 == remove_dead_countries(dropna(df))
    IN  [i \in 1 .. Len(d2) |-> [d2[i] EXCEPT !.Budget = clean_budget(@)]]

\* the excluded label matched by its leading year
fix_year_keep_prefix(row) ==
    ~EqStr(row.Year, "2020 Current") /\ ~EqNum(row.Year, ReferenceYear)

fix_year_keep(row) == ~EqStr(row.Year, "2020 Current")

\* pd.to_numeric raises ValueError on a text that is no number
to_numeric_fails(df) == \E i \in 1 .. Len(df) : IsStr(df[i].Year)

\* after fix_year a row is [idx, Year: integer, Loc: text, Budget: num or nan]
fix_year(df) ==
    LET d2 == SelectSeq(df, fix_year_keep)
    IN  [i \in 1 .. Len(d2) |->
            [idx |-> d2[i].idx, Year |-> d2[i].Year.n, Loc |-> d2[i].Loc.s,
             Budget |-> d2[i].Budget]]

get_df(grid, location_type) ==
    LET frame == fix_header(drop_labels(transpose(grid), skip_columns, 1))
    IN  IF IdColumns(frame, location_type) = {}
        THEN [state |-> "failed", err |-> "KeyError", df |-> <<>>]
        ELSE LET d2 == fix_budget(rename(melt(frame, location_type)))
             IN  IF to_numeric_fails(SelectSeq(d2, fix_year_keep))
                 THEN [state |-> "failed", err |-> "ValueError", df |-> <<>>]
                 ELSE [state |-> "ok", err |-> "", df |-> fix_year(d2)]

NoSheet == [state |-> "new", err |-> "", df |-> <<>>]
NoQuery == [op |-> "none"]

\* Sheet.__init__
SheetInit ==
    /\ sheet.state = "new"
    /\ sheet' = get_df(sheet_raw, sheet_loc)
    /\ UNCHANGED <<sheet_loc, sheet_raw, raw_country, raw_region, phase,
                   constant_USD, regional_totals, last>>

InitSheet ==
    /\ sheet_loc \in {"Country", "Region"}
    /\ \E d \in Deviations(Sites(sheet_loc), MaxIrregular) :
          sheet_raw = RawGrid(sheet_loc, d)
    /\ sheet = NoSheet
    /\ raw_country = <<>>
    /\ raw_region = <<>>
    /\ phase = "new"
    /\ constant_USD = <<>>
    /\ regional_totals = <<>>
    /\ last = NoQuery

NextSheet == SheetInit

SpecSheet == InitSheet /\ [][NextSheet]_vars

-----------------------------------------------------------------------------
(* class Sipri *)

\* Sipri.sipri_to_ISO_country_map.  The source's two spellings of Cote d'Ivoire
\* differ in the apostrophe only; the mapped one is marked (ISO) here.
sipri_to_ISO_country_map ==
    [k \in {"Cape Verde", "Congo, Republic of", "Congo, Dem. Rep.", "Cote d'Ivoire",
            "Trinidad & Tobago", "USA", "Korea, South", "Korea, North", "Brunei",
            "Bosnia-Herzegovina", "Russia", "UK", "Iran", "Laos", "Syria", "UAE"} |->
        CASE k = "Cape Verde" -> "Cabo Verde"
          [] k = "Congo, Republic of" -> "Congo"
          [] k = "Congo, Dem. Rep." -> "Congo, The Democratic Republic of the"
          [] k = "Cote d'Ivoire" -> "Cote d'Ivoire (ISO)"
          [] k = "Trinidad & Tobago" -> "Trinidad and Tobago"
          [] k = "USA" -> "United States"
          [] k = "Korea, South" -> "Korea, Republic of"
          [] k = "Korea, North" -> "Korea, Democratic People's Republic of"
          [] k = "Brunei" -> "Brunei Darussalam"
          [] k = "Bosnia-Herzegovina" -> "Bosnia and Herzegovina"
          [] k = "Russia" -> "Russian Federation"
          [] k = "UK" -> "United Kingdom"
          [] k = "Iran" -> "Iran, Islamic Republic of"
          [] k = "Laos" -> "Lao People's Democratic Republic"
          [] k = "Syria" -> "Syrian Arab Republic"
          [] k = "UAE" -> "United Arab Emirates"]

\* mapped_name.replace("Rep.", "Republic"), on the names the model uses
replace_Rep(name) ==
    IF name = "Dominican Rep." THEN "Dominican Republic" ELSE name

\* Sipri.__map_country_name
map_country_name(country_name) ==
    replace_Rep(IF country_name \in DOMAIN sipri_to_ISO_country_map
                THEN sipri_to_ISO_country_map[country_name]
                ELSE country_name)

\* The records of pycountry.countries the model uses; numeric is a text.
pycountry_countries ==
    {[name |-> "United States", common_name |-> "", numeric |-> "840"],
     [name |-> "United Kingdom", common_name |-> "", numeric |-> "826"],
     [name |-> "Dominican Republic", common_name |-> "", numeric |-> "214"],
     [name |-> "Bolivia, Plurinational State of", common_name |-> "Bolivia",
      numeric |-> "068"]}

\* pycountry.countries.get(name=...) / get(common_name=...): the records found
get_by_name(x) == {c \in pycountry_countries : c.name = x}
get_by_common_name(x) ==
    {c \in pycountry_countries : c.common_name /= "" /\ c.common_name = x}

\* the special case dropped: Kosovo looked up like any other name
get_country_id_lookup_only(country_name) ==
    LET mapped == map_country_name(country_name)
        iso == IF get_by_name(mapped) /= {} THEN get_by_name(mapped)
               ELSE get_by_common_name(mapped)
    IN  IF iso = {} THEN [ok |-> FALSE, err |-> "AttributeError", value |-> NaN]
        ELSE [ok |-> TRUE, err |-> "",
              value |-> Str((CHOOSE c \in iso : TRUE).numeric)]

\* Sipri.__get_country_id: iso.numeric of None raises AttributeError
get_country_id(country_name) ==
    IF country_name = "Kosovo"
    THEN [ok |-> TRUE, err |-> "", value |-> Num(KosovoId)]
    ELSE LET mapped == map_country_name(country_name)
             iso == IF get_by_name(mapped) /= {} THEN get_by_name(mapped)
                    ELSE get_by_common_name(mapped)
         IN  IF iso = {} THEN [ok |-> FALSE, err |-> "AttributeError", value |-> NaN]
             ELSE [ok |-> TRUE, err |-> "",
                   value |-> Str((CHOOSE c \in iso : TRUE).numeric)]

\* .astype('int64') of an identifier: the integer itself, or the text parsed
astype_int64(v) ==
    IF IsNum(v) THEN v.n
    ELSE CASE v.s = "840" -> 840
           [] v.s = "826" -> 826
           [] v.s = "214" -> 214
           [] v.s = "068" -> 68

\* the upper bound taken inclusive
select_df_inclusive(df, country_names, tick_year_list, last_year) ==
    LET keep(row) == /\ row.Year \in tick_year_list[1] .. last_year
                     /\ row.Loc \in country_names
    IN  SelectSeq(df, keep)

\* Sipri.__select_df; range(a, b) is a .. b - 1
select_df(df, country_names, tick_year_list, last_year) ==
    LET full_year_list == tick_year_list[1] .. (last_year - 1)
        keep(row) == row.Year \in full_year_list /\ row.Loc \in country_names
    IN  SelectSeq(df, keep)

\* item / 1000 on a float column: NaN stays NaN.  Every number of the country
\* tab is a multiple of UnitDivisor, so the integer quotient is the exact one.
divide_budget(item) ==
    IF IsNum(item) THEN Num(item.n \div UnitDivisor) ELSE NaN

\* the rename without the rescale
transform_country_to_regional_unscaled(df) == df

\* Sipri.__transform_country_to_regional (the column is renamed Region)
transform_country_to_regional(df) ==
    [i \in 1 .. Len(df) |-> [df[i] EXCEPT !.Budget = divide_budget(@)]]

\* a write through to the frame the selection was taken from
setitem_on_selection_view(owner, written) ==
    [i \in 1 .. Len(owner) |->
        IF \E w \in Range(written) : w.idx = owner[i].idx
        THEN CHOOSE w \in Range(written) : w.idx = owner[i].idx
        ELSE owner[i]]

\* The frame a selection was taken from, after df["Budget"] = ... on the
\* selection: a boolean .loc selection is a copy, the owner keeps its rows.
setitem_on_selection(owner, written) == owner

\* index labels of the difference taken as an inner join
aligned_index_inner(left_labels, right_labels) == left_labels \cap right_labels

\* DataFrame - DataFrame aligns the two indexes with an outer join
aligned_index(left_labels, right_labels) == left_labels \cup right_labels

YearsOf(df) == {row.Year : row \in Range(df)}
BudgetAt(df, y) ==
    IF y \in YearsOf(df) THEN (CHOOSE row \in Range(df) : row.Year = y).Budget ELSE NaN

\* float - float; NaN where either side is missing or NaN
subtract_budget(a, b) ==
    IF IsNum(a) /\ IsNum(b) THEN Num(a.n - b.n) ELSE NaN

is_americas(row) == row.Loc = "Americas"
not_americas(row) == row.Loc /= "Americas"

\* Sipri.__subtract_usa_from_americas
subtract_usa_from_americas(region_df, usa_df) ==
    LET americas == SelectSeq(region_df, is_americas)
        labels == SeqOfSet(aligned_index(YearsOf(americas), YearsOf(usa_df)))
        americas_df ==
            [i \in 1 .. Len(labels) |->
                [idx |-> i - 1, Year |-> labels[i], Loc |-> "Americas minus US",
                 Budget |-> subtract_budget(BudgetAt(americas, labels[i]),
                                            BudgetAt(usa_df, labels[i]))]]
    IN  SelectSeq(region_df, not_americas) \o americas_df

\* pd.concat(..., ignore_index=True)
ignore_index(df) == [i \in 1 .. Len(df) |-> [df[i] EXCEPT !.idx = i - 1]]

\* Sipri.__merge_USA_into_regional
merge_USA_into_regional(region_names, tick_year_list) ==
    LET region_df == select_df(regional_totals, region_names, tick_year_list,
                               DefaultLastYear)
        usa_df == transform_country_to_regional(
                      select_df(constant_USD, {"USA"}, tick_year_list, DefaultLastYear))
        merged == IF "Americas" \in region_names
                  THEN subtract_usa_from_americas(region_df, usa_df)
                  ELSE region_df
    IN  [rows |-> ignore_index(merged \o usa_df), usa_df |-> usa_df]

budgets_keep(row) == ~IsNaN(row.Budget)

\* Sipri.budget_under_price, up to the table handed to the chart: the set of
\* outcomes.  With no row left for the year, budgets.apply(..., axis=1) returns
\* a frame, and whether budgets['id'] = <frame> raises ValueError depends on
\* the pandas release: both outcomes are kept.
budget_under_price(price, year) ==
    LET at_year(row) == row.Year = year
        budgets == SelectSeq(SelectSeq(constant_USD, at_year), budgets_keep)
        ids == [i \in 1 .. Len(budgets) |-> get_country_id(budgets[i].Loc)]
    IN  IF budgets = <<>>
        THEN {[ok |-> TRUE, err |-> "", rows |-> <<>>],
              [ok |-> FALSE, err |-> "ValueError", rows |-> <<>>]}
        ELSE IF \E i \in 1 .. Len(budgets) : ~ids[i].ok
        THEN {[ok |-> FALSE, err |-> "AttributeError", rows |-> <<>>]}
        ELSE {[ok |-> TRUE, err |-> "",
               rows |-> [i \in 1 .. Len(budgets) |->
                           [idx |-> budgets[i].idx, Year |-> budgets[i].Year,
                            Loc |-> budgets[i].Loc, Budget |-> budgets[i].Budget,
                            id |-> astype_int64(ids[i].value),
                            bools |-> budgets[i].Budget.n < price]]]}

-----------------------------------------------------------------------------
(* Inputs of the queries *)

TickYearLists == {<<y>> : y \in {FirstYear, ReferenceYear}}
                    \cup {<<FirstYear + 1, ReferenceYear>>}
LastYears == {ReferenceYear, DefaultLastYear}
NameLists(loc) ==
    LET names == EntityNames(loc)
    IN  IF loc = "Country" THEN {{names[1]}, {names[1], names[2]}}
        ELSE {{names[1]}, {names[2]}, {names[1], names[2]}}
Prices == {UnitDivisor * 11, UnitDivisor * 100}
LookupNames == Range(CountryPool) \cup {"UK"}

WorkbookSites ==
    {<<x[1], x[2], "Country">> : x \in Sites("Country")}
        \cup {<<x[1], x[2], "Region">> : x \in Sites("Region")}

\* the deviations of one tab
TabDeviations(d, loc) ==
    [x \in {<<w[1], w[2]>> : w \in {v \in DOMAIN d : v[3] = loc}} |->
        d[<<x[1], x[2], loc>>]]

-----------------------------------------------------------------------------
(* Actions of Sipri *)

\* Sipri.__init__: both tabs are read; an exception of either leaves no object
SipriInit ==
    /\ phase = "new"
    /\ LET c == get_df(raw_country, "Country")
           r == get_df(raw_region, "Region")
       IN  IF c.state = "ok" /\ r.state = "ok"
           THEN /\ phase' = "ready"
                /\ constant_USD' = c.df
                /\ regional_totals' = r.df
           ELSE /\ phase' = "failed"
                /\ UNCHANGED <<constant_USD, regional_totals>>
    /\ UNCHANGED <<sheet_loc, sheet_raw, sheet, raw_country, raw_region, last>>

\* budget_line_chart / spending_bar_chart, up to the table handed to the chart
Select ==
    /\ phase = "ready"
    /\ \E names \in NameLists("Country") : \E ticks \in TickYearLists :
       \E last_year \in LastYears :
          last' = [op |-> "select", ok |-> TRUE, err |-> "", names |-> names,
                   ticks |-> ticks, last_year |-> last_year,
                   rows |-> select_df(constant_USD, names, ticks, last_year)]
    /\ UNCHANGED <<sheet_loc, sheet_raw, sheet, raw_country, raw_region, phase,
                   constant_USD, regional_totals>>

\* regional_budget_line_chart / regional_spending_bar_chart
Merge ==
    /\ phase = "ready"
    /\ \E names \in NameLists("Region") : \E ticks \in TickYearLists :
          LET m == merge_USA_into_regional(names, ticks)
          IN  /\ last' = [op |-> "merge", ok |-> TRUE, err |-> "", names |-> names,
                          ticks |-> ticks, rows |-> m.rows]
              /\ constant_USD' = setitem_on_selection(constant_USD, m.usa_df)
    /\ UNCHANGED <<sheet_loc, sheet_raw, sheet, raw_country, raw_region, phase,
                   regional_totals>>

\* budget_under_price
Classify ==
    /\ phase = "ready"
    /\ \E price \in Prices : \E year \in Years :
       \E b \in budget_under_price(price, year) :
          last' = [op |-> "classify", ok |-> b.ok, err |-> b.err,
                   price |-> price, year |-> year, rows |-> b.rows]
    /\ UNCHANGED <<sheet_loc, sheet_raw, sheet, raw_country, raw_region, phase,
                   constant_USD, regional_totals>>

\* __get_country_id on one name
Resolve ==
    /\ phase = "ready"
    /\ \E name \in LookupNames :
          LET g == get_country_id(name)
          IN  last' = [op |-> "resolve", ok |-> g.ok, err |-> g.err, name |-> name,
                       id |-> IF g.ok THEN astype_int64(g.value) ELSE -1]
    /\ UNCHANGED <<sheet_loc, sheet_raw, sheet, raw_country, raw_region, phase,
                   constant_USD, regional_totals>>

Init ==
    /\ \E d \in Deviations(WorkbookSites, MaxIrregularWorkbook) :
          /\ raw_country = RawGrid("Country", TabDeviations(d, "Country"))
          /\ raw_region = RawGrid("Region", TabDeviations(d, "Region"))
    /\ phase = "new"
    /\ constant_USD = <<>>
    /\ regional_totals = <<>>
    /\ last = NoQuery
    /\ sheet_loc = "Country"
    /\ sheet_raw = <<>>
    /\ sheet = NoSheet

Next == SipriInit \/ Select \/ Merge \/ Classify \/ Resolve

Spec == Init /\ [][Next]_vars

-----------------------------------------------------------------------------
(* Properties of Sheet normalization (checked under SpecSheet) *)

GridRows == 2 .. Len(sheet_raw)
YearCols == 3 .. NumGridCols
Label(c) == sheet_raw[1][c]
NameCell(r) == sheet_raw[r][1]
RefCols == {c \in YearCols : EqNum(Label(c), ReferenceYear)}
NumericCols == {c \in YearCols : IsNum(Label(c))}
Loaded == sheet.state = "ok"
DfRows == Range(sheet.df)
RowsOf(name, y) == {i \in 1 .. Len(sheet.df) :
                      sheet.df[i].Loc = name /\ sheet.df[i].Year = y}
HasRows(name) == \E row \in DfRows : row.Loc = name
ParsesAsNumber(cell) == IsNum(cell) \/ (IsStr(cell) /\ cell.s = "7000")
Unparseable(cell) == IsStr(cell) /\ cell.s \in {"xxx", ". ."}

\* the reference-year cell of grid row r is missing or the sentinel "xxx"
RefCellDead(r) ==
    \/ RefCols = {}
    \/ \E c \in RefCols : IsNaN(sheet_raw[r][c]) \/ EqStr(sheet_raw[r][c], "xxx")

\* C1: an entity whose reference-year (2020) cell is missing or "xxx" has no
\* row in the normalized table, in any year.
C1_SurvivorshipFilter ==
    Loaded => \A r \in GridRows :
        (IsStr(NameCell(r)) /\ RefCellDead(r)) => ~HasRows(NameCell(r).s)

\* an entity with "xxx" in 2020 and a number in another year is gone, while
\* another entity is kept
C1_Witness ==
    /\ Loaded
    /\ sheet.df /= <<>>
    /\ \E r \in GridRows : \E c \in RefCols : \E c2 \in NumericCols \ RefCols :
          /\ IsStr(NameCell(r))
          /\ EqStr(sheet_raw[r][c], "xxx")
          /\ IsNum(sheet_raw[r][c2])
          /\ ~HasRows(NameCell(r).s)

\* C2 as stated: every entity with a row has a reference-year row with a
\* numeric budget.
C2_Original ==
    Loaded => \A row \in DfRows : \E ref \in DfRows :
        ref.Loc = row.Loc /\ ref.Year = ReferenceYear /\ IsNum(ref.Budget)

\* C2 amended: every entity with a row has a reference-year row; its raw cell
\* was neither missing nor "xxx"; its budget is numeric exactly when the raw
\* cell parses as a number, and absent for any other token.
C2_RetainedHaveReferenceRow ==
    Loaded => \A row \in DfRows :
        \E r \in GridRows : \E c \in RefCols : \E ref \in DfRows :
            /\ EqStr(NameCell(r), row.Loc)
            /\ ref.Loc = row.Loc /\ ref.Year = ReferenceYear
            /\ ~IsNaN(sheet_raw[r][c]) /\ ~EqStr(sheet_raw[r][c], "xxx")
            /\ IsNum(ref.Budget) <=> ParsesAsNumber(sheet_raw[r][c])
            /\ IsNum(sheet_raw[r][c]) => ref.Budget = sheet_raw[r][c]

\* an entity is kept although its 2020 cell is the token ". ."
C2_Witness ==
    /\ Loaded
    /\ \E r \in GridRows : \E c \in RefCols : \E ref \in DfRows :
          /\ EqStr(sheet_raw[r][c], ". .")
          /\ EqStr(NameCell(r), ref.Loc)
          /\ ref.Year = ReferenceYear /\ IsNaN(ref.Budget)

StripIdx(df) ==
    [i \in 1 .. Len(df) |->
        [Year |-> df[i].Year, Loc |-> df[i].Loc, Budget |-> df[i].Budget]]

Outcome(res) == [state |-> res.state, err |-> res.err, rows |-> StripIdx(res.df)]

HasName(gridrow) == ~IsNaN(gridrow[1])
WithoutNamelessRows(grid) == <<grid[1]>> \o SelectSeq(Tail(grid), HasName)
HeaderValueMissing == \E r \in GridRows : IsNaN(NameCell(r))

\* C8 as stated: a missing entity name in the header halts normalization.
C8_Original ==
    (sheet.state /= "new" /\ HeaderValueMissing) => sheet.state = "failed"

\* C8 amended: a missing entity name in the header does not halt normalization;
\* the outcome (success or failure, and every row but for its index label) is
\* the outcome for the same grid without the nameless entities.
C8_NamelessColumnDropped ==
    sheet.state /= "new" =>
        Outcome(sheet) = Outcome(get_df(WithoutNamelessRows(sheet_raw), sheet_loc))

\* a tab with a nameless entity is normalized, and keeps the named entities
C8_Witness ==
    /\ Loaded
    /\ HeaderValueMissing
    /\ sheet.df /= <<>>
    /\ \E r \in GridRows : IsNaN(NameCell(r)) /\ \E c \in YearCols : IsNum(sheet_raw[r][c])

\* C9 as stated: for a surviving entity, a year column whose cell is empty or
\* unparseable yields a row with an absent budget.
C9_Original ==
    Loaded => \A r \in GridRows : \A c \in NumericCols :
        (IsStr(NameCell(r)) /\ HasRows(NameCell(r).s)
            /\ (IsNaN(sheet_raw[r][c]) \/ Unparseable(sheet_raw[r][c])))
        => \E i \in RowsOf(NameCell(r).s, Label(c).n) : IsNaN(sheet.df[i].Budget)

AxisLabelMissing == ~EqStr(sheet_raw[1][1], sheet_loc)
TextYearLabel == \E c \in YearCols : IsStr(Label(c)) /\ ~EqStr(Label(c), "2020 Current")

\* C9 amended: for a surviving entity and a numeric year column, a sentinel or
\* unparseable text cell yields exactly one row, with an absent budget; an
\* empty cell yields no row; no budget cell makes normalization fail.
C9_BadCellsPerCell ==
    /\ sheet.state = "failed" => (AxisLabelMissing \/ TextYearLabel)
    /\ Loaded => \A r \in GridRows : \A c \in NumericCols :
          (IsStr(NameCell(r)) /\ HasRows(NameCell(r).s)) =>
             LET rows == RowsOf(NameCell(r).s, Label(c).n)
             IN  /\ Unparseable(sheet_raw[r][c]) =>
                       /\ Cardinality(rows) = 1
                       /\ \A i \in rows : IsNaN(sheet.df[i].Budget)
                 /\ IsNaN(sheet_raw[r][c]) => rows = {}

\* a surviving entity with one unparseable cell and one empty cell
C9_Witness ==
    /\ Loaded
    /\ \E r \in GridRows : \E c1, c2 \in NumericCols :
          /\ IsStr(NameCell(r)) /\ HasRows(NameCell(r).s)
          /\ EqStr(sheet_raw[r][c1], ". .")
          /\ IsNaN(sheet_raw[r][c2])
          /\ RowsOf(NameCell(r).s, Label(c2).n) = {}
          /\ \E i \in RowsOf(NameCell(r).s, Label(c1).n) : IsNaN(sheet.df[i].Budget)

\* C10: a grid whose only text year label is "2020 Current" normalizes; every
\* year of the table is the integer of a numeric column header; no entity has
\* a year twice; no row comes from the "2020 Current" column; every entity of
\* the table has its row of the integer year 2020.
C10_YearColumn ==
    /\ (sheet.state /= "new" /\ ~AxisLabelMissing /\ ~TextYearLabel) => Loaded
    /\ Loaded =>
          /\ \A row \in DfRows : \E c \in NumericCols : Label(c).n = row.Year
          /\ \A row \in DfRows : Cardinality(RowsOf(row.Loc, row.Year)) = 1
          /\ \A row \in DfRows : RowsOf(row.Loc, ReferenceYear) /= {}
          /\ \A r \in GridRows : IsStr(NameCell(r)) =>
                Cardinality({i \in 1 .. Len(sheet.df) : sheet.df[i].Loc = NameCell(r).s})
                    <= Cardinality(NumericCols)

\* a tab with a "2020 Current" column holding a number for a kept entity
C10_Witness ==
    /\ Loaded
    /\ \E c \in YearCols : \E r \in GridRows :
          /\ EqStr(Label(c), "2020 Current")
          /\ IsNum(sheet_raw[r][c])
          /\ IsStr(NameCell(r))
          /\ RowsOf(NameCell(r).s, ReferenceYear) /= {}

-----------------------------------------------------------------------------
(* Properties of Sipri (checked under Spec) *)

Ready == phase = "ready"
InRange(y, ticks, last_year) == ticks[1] <= y /\ y < last_year
SameRecord(a, b) == a.Year = b.Year /\ a.Loc = b.Loc /\ a.Budget = b.Budget
IsMerge == last.op = "merge"
AmericasMerge == IsMerge /\ "Americas" \in last.names
AmericasRows == {r \in Range(regional_totals) :
                   r.Loc = "Americas" /\ InRange(r.Year, last.ticks, DefaultLastYear)}
USARows == {r \in Range(constant_USD) :
              r.Loc = "USA" /\ InRange(r.Year, last.ticks, DefaultLastYear)}
MinusRows(y) == {i \in 1 .. Len(last.rows) :
                   last.rows[i].Loc = "Americas minus US" /\ last.rows[i].Year = y}
AllMinusRows == {i \in 1 .. Len(last.rows) : last.rows[i].Loc = "Americas minus US"}
SharedYears == {a.Year : a \in AmericasRows} \cap {u.Year : u \in USARows}
EitherYears == {a.Year : a \in AmericasRows} \cup {u.Year : u \in USARows}

\* C3: a merge that asks for "Americas" returns no "Americas" row; for every
\* year both the Americas rows and the USA rows have, one "Americas minus US"
\* row whose budget is the Americas budget minus the USA budget / 1000 (absent
\* when either is absent); the rows of the other regions asked for unchanged.
C3_AmericasMinusUS ==
    AmericasMerge =>
        /\ \A out \in Range(last.rows) : out.Loc /= "Americas"
        /\ \A a \in AmericasRows : \A u \in USARows : a.Year = u.Year =>
              /\ Cardinality(MinusRows(a.Year)) = 1
              /\ \A i \in MinusRows(a.Year) :
                    IF IsNum(a.Budget) /\ IsNum(u.Budget)
                    THEN /\ IsNum(last.rows[i].Budget)
                         /\ UnitDivisor * (a.Budget.n - last.rows[i].Budget.n)
                                = u.Budget.n
                    ELSE IsNaN(last.rows[i].Budget)
        /\ \A r \in Range(regional_totals) :
              (r.Loc \in last.names \ {"Americas"}
                  /\ InRange(r.Year, last.ticks, DefaultLastYear))
              => Cardinality({i \in 1 .. Len(last.rows) :
                                 SameRecord(last.rows[i], r)}) = 1
        /\ \A out \in Range(last.rows) :
              out.Loc \notin {"Americas minus US", "USA"} =>
                 \E r \in Range(regional_totals) : SameRecord(out, r)

\* a merge of Americas and Europe with a numeric difference and a Europe row
C3_Witness ==
    /\ AmericasMerge
    /\ \E i \in AllMinusRows :
          IsNum(last.rows[i].Budget) /\ last.rows[i].Year \in SharedYears
    /\ \E out \in Range(last.rows) : out.Loc = "Europe"

\* C4 as stated: the "Americas minus US" rows are those of the shared years.
C4_Original ==
    AmericasMerge => Cardinality(AllMinusRows) = Cardinality(SharedYears)

\* C4 amended: a year of the range that only one side has yields one
\* "Americas minus US" row with an absent budget; there is one such row per
\* year that either side has.
C4_OuterJoinAbsent ==
    AmericasMerge =>
        /\ \A y \in EitherYears \ SharedYears :
              /\ Cardinality(MinusRows(y)) = 1
              /\ \A i \in MinusRows(y) : IsNaN(last.rows[i].Budget)
        /\ Cardinality(AllMinusRows) = Cardinality(EitherYears)
        /\ \A i \in AllMinusRows : last.rows[i].Year \in EitherYears

\* a merge where one year is on one side only
C4_Witness ==
    /\ AmericasMerge
    /\ SharedYears /= {}
    /\ \E y \in EitherYears \ SharedYears :
          \E i \in MinusRows(y) : IsNaN(last.rows[i].Budget)

\* C5: a selection holds exactly the rows of the table whose entity is asked
\* for and whose year y has start <= y < last, each as it is in the table.
C5_SelectExact ==
    /\ last.op = "select" =>
          /\ \A r \in Range(constant_USD) :
                (r.Loc \in last.names /\ InRange(r.Year, last.ticks, last.last_year))
                <=> r \in Range(last.rows)
          /\ Range(last.rows) \subseteq Range(constant_USD)
          /\ Cardinality(Range(last.rows)) = Len(last.rows)
    /\ (IsMerge /\ "Americas" \notin last.names) =>
          \A r \in Range(regional_totals) :
                (r.Loc \in last.names /\ InRange(r.Year, last.ticks, DefaultLastYear))
                <=> \E out \in Range(last.rows) : SameRecord(out, r)

\* a selection that leaves out a row of the year last_year and a row of an
\* entity not asked for
C5_Witness ==
    /\ last.op = "select"
    /\ last.rows /= <<>>
    /\ \E r \in Range(constant_USD) : r.Loc \in last.names /\ r.Year = last.last_year
    /\ \E r \in Range(constant_USD) :
          r.Loc \notin last.names /\ InRange(r.Year, last.ticks, last.last_year)

\* C6: once built, the two tables hold what construction produced, after any
\* sequence of queries.
C6_TablesUnchanged ==
    Ready => /\ constant_USD = get_df(raw_country, "Country").df
             /\ regional_totals = get_df(raw_region, "Region").df

\* a merge returned a rescaled USA row while the table keeps the original
C6_Witness ==
    /\ AmericasMerge
    /\ \E out \in Range(last.rows) : \E u \in USARows :
          /\ out.Loc = "USA" /\ out.Year = u.Year
          /\ IsNum(out.Budget) /\ IsNum(u.Budget)
          /\ out.Budget.n * UnitDivisor = u.Budget.n
          /\ out.Budget.n /= u.Budget.n
    /\ AllMinusRows /= {}

Unresolvable(name) ==
    /\ name /= "Kosovo"
    /\ get_by_name(map_country_name(name)) = {}
    /\ get_by_common_name(map_country_name(name)) = {}

StructureBroken(grid, loc) ==
    \/ ~EqStr(grid[1][1], loc)
    \/ \E c \in 3 .. NumGridCols : IsStr(grid[1][c]) /\ ~EqStr(grid[1][c], "2020 Current")

\* C7: "Kosovo" resolves to 0; a name neither lookup finds ends in the error
\* and gives no identifier; the error arises only where resolution is asked
\* for: construction fails only on a broken grid and a selection never fails.
C7_ResolveErrors ==
    /\ last.op = "resolve" =>
          /\ last.name = "Kosovo" => (last.ok /\ last.id = KosovoId)
          /\ Unresolvable(last.name) =>
                (~last.ok /\ last.err = "AttributeError" /\ last.id = -1)
          /\ ~Unresolvable(last.name) => (last.ok /\ last.id >= 0)
    /\ last.op = "classify" =>
          (last.err = "AttributeError" <=>
              \E r \in Range(constant_USD) :
                  r.Year = last.year /\ ~IsNaN(r.Budget) /\ Unresolvable(r.Loc))
    /\ (last.op /= "none" /\ last.err = "AttributeError")
          => last.op \in {"resolve", "classify"}
    /\ last.op = "select" => last.ok
    /\ phase = "failed" =>
          (StructureBroken(raw_country, "Country") \/ StructureBroken(raw_region, "Region"))

\* the table holds a name that does not resolve, and resolving it fails
C7_Witness ==
    /\ Ready
    /\ last.op = "resolve" /\ ~last.ok /\ last.name = "Atlantis"
    /\ \E r \in Range(constant_USD) : r.Loc = "Atlantis"

====
